---- MODULE Spec2Model ----
(***************************************************************************)
(* The property admin backend of charged-up-properties: three rewrites of  *)
(* the same route set over one Record Store table ("properties") and one   *)
(* Object Store:                                                           *)
(*   "part_000"  src/unnamed/part_000  token-gated, galleryOrder           *)
(*   "part_001"  src/unnamed/part_001  reads the row first, removeGallery  *)
(*   "server"    src/server.js         disk uploads, gallery_images field  *)
(* A deployment runs one of them (variable server).  A request is handled  *)
(* in steps, one per await of its handler: the row read, each image        *)
(* upload, the Record Store call.                                          *)
(***************************************************************************)
EXTENDS Integers, Sequences, FiniteSets, TLC

\* ----------------------------------------------------------------- bounds
MaxTime     == 2    \* Date.now() takes the values 1..MaxTime
MaxProps    == 1    \* rows the Record Store ever assigns an id to
MaxRequests == 2    \* requests handled in one behaviour
MaxFiles    == 2    \* gallery files of one request
MaxInstrLen == 2    \* URLs in a galleryOrder / removeGallery / gallery_images

VARIABLES
    server,       \* which rewrite is deployed
    properties,   \* Record Store: id -> row, for the ids that exist
    nextId,       \* Record Store: the id the next insert gets
    blobs,        \* Object Store: the keys written, <<bucket, ts, name>>
    now,          \* Date.now()
    reqs,         \* per client: the request it has in flight or finished
    nreq          \* requests begun so far

vars == <<server, properties, nextId, blobs, now, reqs, nreq>>

Servers == {"part_000", "part_001", "server"}
Clients == {1}

\* ------------------------------------------------------------- JS values
Undefined == <<"undefined", "">>
Null      == <<"null", "">>
NaN       == <<"number", "NaN">>
Str(s)    == <<"string", s>>
Num(s)    == <<"number", s>>
Bool(b)   == <<"boolean", IF b THEN "true" ELSE "false">>
Url(bucket, ts, name) == <<"url", bucket, name, ts>>

Falsy(v) == v \in {Undefined, Null, NaN, Str(""), Num("0"), Bool(FALSE)}

\* x || null
OrNull(v) == IF Falsy(v) THEN Null ELSE v

\* the decimal strings the request bodies use, with their integer prefix
IntPrefix ==
    ("250000" :> "250000") @@ ("260000" :> "260000") @@ ("3" :> "3") @@
    ("2" :> "2") @@ ("2.5" :> "2") @@ ("1800" :> "1800")

FloatPrefix ==
    ("250000" :> "250000") @@ ("260000" :> "260000") @@ ("3" :> "3") @@
    ("2" :> "2") @@ ("2.5" :> "2.5") @@ ("1800" :> "1800")

parseInt(v) ==
    IF v[1] = "string" /\ v[2] \in DOMAIN IntPrefix
    THEN Num(IntPrefix[v[2]]) ELSE NaN

parseFloat(v) ==
    IF v[1] = "string" /\ v[2] \in DOMAIN FloatPrefix
    THEN Num(FloatPrefix[v[2]]) ELSE NaN

\* ---------------------------------------------------------------- bodies
ScalarFields ==
    {"name", "price", "status", "address", "beds", "baths", "sqft", "type",
     "lot", "basement", "description", "listing_url", "hot_deal"}

Columns == ScalarFields \cup {"lot_size"}

FullBody ==
    [f \in ScalarFields |->
        CASE f = "name"        -> "Lakeview House"
          [] f = "price"       -> "250000"
          [] f = "status"      -> "active"
          [] f = "address"     -> "12 Lake Rd"
          [] f = "beds"        -> "3"
          [] f = "baths"       -> "2"
          [] f = "sqft"        -> "1800"
          [] f = "type"        -> "house"
          [] f = "lot"         -> "half acre"
          [] f = "basement"    -> "full"
          [] f = "description" -> "by the lake"
          [] f = "listing_url" -> "https://example.com/1"
          [] f = "hot_deal"    -> "true"]

PartialBody ==
    ("price" :> "260000") @@ ("status" :> "sold") @@ ("baths" :> "2.5")

Bodies == {FullBody, PartialBody}

\* req.body.<f>: a multipart text field is a string, a missing one undefined
Field(body, f) == IF f \in DOMAIN body THEN Str(body[f]) ELSE Undefined

\* ------------------------------------------------------------ Access Gate
JWT_SECRET == "JWT_SECRET"

\* a token: the key that signed it and whether its 12h have passed
Token(key, age) == <<"jwt", key, age>>

\* the Authorization header, as authHeader.split(" ") sees it; <<>> is a
\* missing (or empty) header
AuthHeaders ==
    { <<>>,
      <<Str("Bearer"), Token(JWT_SECRET, "fresh")>>,
      <<Str("Bearer"), Token("guessed", "fresh")>>,
      <<Str("Bearer"), Token(JWT_SECRET, "expired")>>,
      <<Token(JWT_SECRET, "fresh")>> }

\* jwt.verify(token, secret) does not throw
jwtVerify(token, secret) ==
    /\ token[1] = "jwt"
    /\ token[2] = secret
    /\ token[3] = "fresh"

\* a gate that calls next() whatever the header holds
requireAuthAlways(authHeader) == 0

\* requireAuth calls next(): 0, or the status it answers with
requireAuth(authHeader) ==
    IF authHeader = <<>> THEN 401
    ELSE LET token == IF Len(authHeader) >= 2 THEN authHeader[2] ELSE Undefined
         IN  IF jwtVerify(token, JWT_SECRET) THEN 0 ELSE 401

\* only part_000 mounts requireAuth on its routes
Gate(srv, authHeader) ==
    IF srv = "part_000" THEN requireAuth(authHeader) ELSE 0

\* ----------------------------------------------------------- Record Store
\* JSON.stringify of a payload value: NaN becomes null
Json(v) == IF v = NaN THEN Null ELSE v

\* JSON.stringify of an array: undefined and NaN elements become null
JsonArray(a) == [i \in 1..Len(a) |-> IF a[i] \in {Undefined, NaN} THEN Null ELSE a[i]]

\* a payload: cols[c] = Undefined and hasGallery = FALSE are keys that
\* JSON.stringify drops, so the column is not part of the statement
EmptyRow ==
    [cols |-> [c \in Columns |-> Null], cover_image |-> Null, gallery_images |-> <<>>]

\* .insert([payload]): columns without a value take the table's default
InsertRow(payload) ==
    [cols |-> [c \in Columns |->
                 IF payload.cols[c] = Undefined THEN Null ELSE Json(payload.cols[c])],
     cover_image |-> IF payload.cover_image = Undefined THEN Null
                     ELSE payload.cover_image,
     gallery_images |-> IF payload.hasGallery THEN JsonArray(payload.gallery_images)
                        ELSE <<>>]

\* .update(payload).eq("id", id): only the columns sent are set
UpdateRow(row, payload) ==
    [cols |-> [c \in Columns |->
                 IF payload.cols[c] = Undefined THEN row.cols[c]
                 ELSE Json(payload.cols[c])],
     cover_image |-> IF payload.cover_image = Undefined THEN row.cover_image
                     ELSE payload.cover_image,
     gallery_images |-> IF payload.hasGallery THEN JsonArray(payload.gallery_images)
                        ELSE row.gallery_images]

\* ------------------------------------------------------- field normalization
\* part_000 POST: the object handed to insert
insert000(body) ==
    [c \in Columns |->
        CASE c \in {"name", "status", "address", "type", "lot", "basement",
                    "description"}            -> Field(body, c)
          [] c \in {"price", "beds", "baths", "sqft", "listing_url"}
                                              -> OrNull(Field(body, c))
          [] c = "hot_deal" -> Bool(Field(body, c) \in {Str("true"), Bool(TRUE)})
          [] OTHER                            -> Undefined]

\* part_000 PUT: const update = {...}
update000(body) ==
    [c \in Columns |->
        CASE c \in {"name", "status", "address", "type", "lot", "basement",
                    "description", "listing_url"} -> OrNull(Field(body, c))
          [] c \in {"price", "beds", "sqft"} ->
                IF Falsy(Field(body, c)) THEN Null ELSE parseInt(Field(body, c))
          [] c = "baths" ->
                IF Falsy(Field(body, c)) THEN Null ELSE parseFloat(Field(body, c))
          [] c = "hot_deal" -> Bool(Field(body, c) \in {Str("true"), Bool(TRUE)})
          [] OTHER -> Undefined]

\* part_001 POST and PUT: const payload = {...}; lot goes to column lot_size
payload001(body) ==
    [c \in Columns |->
        CASE c \in {"name", "price", "status", "address", "beds", "baths", "sqft",
                    "type", "basement", "description"} -> Field(body, c)
          [] c = "lot_size" -> Field(body, "lot")
          [] OTHER -> Undefined]

\* server.js POST and PUT: { name, price, ..., description }
payloadServer(body) ==
    [c \in Columns |->
        CASE c \in {"name", "price", "status", "address", "beds", "baths", "sqft",
                    "type", "lot", "basement", "description"} -> Field(body, c)
          [] OTHER -> Undefined]

\* ---------------------------------------------------------- Image Ingestion
NoFile    == ""
FileNames == {"a.jpg", "b.jpg"}

\* server.js multer filename: originalname.replace(/\s/g, "_")
Sanitize(name) ==
    CASE name = "my pic.jpg" -> "my_pic.jpg"
      [] OTHER               -> name

\* the bucket each rewrite uploads to
Bucket(srv) == IF srv = "server" THEN "properties" ELSE "property-images"

\* the storage key: `${Date.now()}_${file.originalname}`; in server.js the
\* name multer gave the file on disk when the request was parsed (at t0)
StorageKey(srv, t, t0, name) ==
    IF srv = "server" THEN <<Bucket(srv), t0, Sanitize(name)>>
    ELSE <<Bucket(srv), t, name>>

\* what the handler takes as the uploaded file's URL.  server.js reads
\* .publicUrl off getPublicUrl()'s result, which holds it under .data: undefined
PublicUrl(srv, key) ==
    IF srv = "server" THEN Undefined ELSE Url(key[1], key[2], key[3])

\* ------------------------------------------------------ Gallery Reconciliation
\* remove.includes(u)
Includes(list, u) == \E i \in 1..Len(list) : list[i] = u

\* galleryUrls.filter((u) => !remove.includes(u))
FilterOut(list, remove) == SelectSeq(list, LAMBDA u : ~Includes(remove, u))

\* part_000 PUT: finalGallery after steps 1 and 2
finalGallery000(instr, uploaded) ==
    (IF instr.kind = "array" THEN instr.urls ELSE <<>>) \o uploaded

\* part_001 PUT: galleryUrls handed to the payload (the instruction parses)
galleryUrls001(existing, instr, uploaded) ==
    LET all == existing.gallery_images \o uploaded
    IN  IF instr.kind = "array" THEN FilterOut(all, instr.urls) ELSE all

\* server.js PUT: galleryUrls handed to the update (the instruction parses)
galleryUrlsServer(instr, uploaded) ==
    (IF instr.kind = "array" THEN instr.urls ELSE <<>>) \o uploaded

\* -------------------------------------------------------------- requests
SeqsUpTo(S, n) == UNION {[1..k -> S] : k \in 0..n}

UrlUniverse == {Url("property-images", t, n) : t \in 1..MaxTime, n \in FileNames}

\* the field the deployed rewrite reads its instruction from
InstrField(srv) ==
    CASE srv = "part_000" -> "galleryOrder"
      [] srv = "part_001" -> "removeGallery"
      [] srv = "server"   -> "gallery_images"

\* the instruction field of a PUT body: missing, text that is no JSON, or
\* the JSON text of an array of URLs
Instructions ==
    {[kind |-> "absent", urls |-> <<>>], [kind |-> "garbled", urls |-> <<>>]}
    \cup {[kind |-> "array", urls |-> s] : s \in SeqsUpTo(UrlUniverse, MaxInstrLen)}

NoInstr == [kind |-> "absent", urls |-> <<>>]

EmptyBody == [f \in {} |-> ""]

\* the cover_image text field, which only server.js reads
CoverFields(srv) ==
    IF srv = "server" THEN {Undefined, Url("properties", 1, "a.jpg")}
    ELSE {Undefined}

IdleReq ==
    [pc |-> "idle", method |-> "NONE", id |-> 0, auth |-> <<>>, body |-> EmptyBody,
     coverImage |-> NoFile, galleryImages |-> <<>>, instr |-> NoInstr,
     cover_image |-> Undefined, t0 |-> 0,
     existing |-> EmptyRow, coverUrl |-> Undefined, uploaded |-> <<>>,
     status |-> 0,
     \* history: an Object Store write of this request returned an error; the
     \* Record Store and the Object Store as the request found them; the place
     \* of its update among the updates the Record Store applied (0: none) and
     \* the row that update replaced
     storageError |-> FALSE, before |-> <<>>, blobsBefore |-> {}, applied |-> 0,
     replaced |-> EmptyRow]

\* where the handler first awaits, after its files are in
AfterSetup(r) ==
    IF r.coverImage # NoFile THEN "cover"
    ELSE IF r.galleryImages # <<>> THEN "gallery"
    ELSE "store"

\* the request up to its first await: the gate, then the handler's first lines
Start(srv, r) ==
    IF Gate(srv, r.auth) # 0
    THEN [r EXCEPT !.pc = "done", !.status = Gate(srv, r.auth)]
    ELSE IF r.method = "DELETE" THEN [r EXCEPT !.pc = "store"]
    ELSE IF srv = "server" /\ r.method = "PUT" /\ r.instr.kind = "garbled"
    THEN [r EXCEPT !.pc = "done", !.status = 500]
    ELSE IF srv = "part_001" /\ r.method = "PUT" THEN [r EXCEPT !.pc = "read"]
    ELSE [r EXCEPT !.pc = AfterSetup(r)]

AuthChoices(srv) == IF srv = "part_000" THEN AuthHeaders ELSE {<<>>}

CanBegin(c) ==
    /\ reqs[c].pc \in {"idle", "done"}
    /\ nreq < MaxRequests

Arrive(c, r) ==
    /\ reqs' = [reqs EXCEPT ![c] =
                  Start(server, [r EXCEPT !.before = properties,
                                          !.blobsBefore = blobs,
                                          !.t0 = IF server = "server" THEN now ELSE 0])]
    /\ nreq' = nreq + 1
    /\ UNCHANGED <<server, properties, nextId, blobs, now>>

\* A request the gate turns away is never parsed (multer runs after
\* requireAuth), so one body stands for all of them.
Rejected(c, method, auth, id) ==
    Arrive(c, [IdleReq EXCEPT !.method = method, !.auth = auth, !.id = id,
                              !.body = FullBody, !.coverImage = "a.jpg",
                              !.galleryImages = <<"a.jpg">>])

PostBodies == {FullBody}
PutBodies  == {FullBody, PartialBody}

\* the instructions drawn for a PUT: any of them for a row that exists
InstrChoices(id) ==
    IF id \in DOMAIN properties THEN Instructions ELSE {NoInstr}

\* POST /api/properties arrives
BeginPost(c) ==
    /\ CanBegin(c)
    /\ nextId <= MaxProps
    /\ \E auth \in AuthChoices(server) :
          IF Gate(server, auth) # 0 THEN Rejected(c, "POST", auth, 0)
          ELSE \E body \in PostBodies, cover \in {NoFile, "a.jpg"},
                  files \in SeqsUpTo(FileNames, MaxFiles) :
                  Arrive(c, [IdleReq EXCEPT !.method = "POST", !.auth = auth,
                                            !.body = body, !.coverImage = cover,
                                            !.galleryImages = files])

\* PUT /api/properties/:id arrives
BeginPut(c) ==
    /\ CanBegin(c)
    /\ \E auth \in AuthChoices(server), id \in 1..MaxProps :
          IF Gate(server, auth) # 0 THEN Rejected(c, "PUT", auth, id)
          ELSE \E body \in PutBodies, cover \in {NoFile, "a.jpg"},
                  files \in SeqsUpTo(FileNames, MaxFiles),
                  instr \in InstrChoices(id), cf \in CoverFields(server) :
                  Arrive(c, [IdleReq EXCEPT !.method = "PUT", !.auth = auth, !.id = id,
                                            !.body = body, !.coverImage = cover,
                                            !.galleryImages = files, !.instr = instr,
                                            !.cover_image = cf])

\* DELETE /api/properties/:id arrives
BeginDelete(c) ==
    /\ CanBegin(c)
    /\ \E auth \in AuthChoices(server), id \in 1..MaxProps :
          Arrive(c, [IdleReq EXCEPT !.method = "DELETE", !.auth = auth, !.id = id])

\* ------------------------------------------------------------- the awaits
Fail(r, code) == [r EXCEPT !.pc = "done", !.status = code]

\* part_001 PUT: const { data: existing } = await ...select("*").eq("id", id).single()
\* A missing row gives data null, and existing.cover_image then throws.
ReadExisting(c) ==
    LET r == reqs[c] IN
    /\ r.pc = "read"
    /\ reqs' = [reqs EXCEPT ![c] =
                  IF r.id \in DOMAIN properties
                  THEN [r EXCEPT !.existing = properties[r.id], !.pc = AfterSetup(r)]
                  ELSE Fail(r, 500)]
    /\ UNCHANGED <<server, properties, nextId, blobs, now, nreq>>

\* Date.now() when an upload starts: the clock has moved on, or not
Clock == {t \in {now, now + 1} : t <= MaxTime}

\* uploadImage's write returned an error and the error is not thrown: the
\* handler goes on to its Record Store call
uploadErrorSwallowed(r) == [r EXCEPT !.storageError = TRUE, !.pc = "store"]

\* if (error) throw error, caught by the handler's catch: res.status(500)
uploadError(r) == [Fail(r, 500) EXCEPT !.storageError = TRUE]

\* await uploadImage(req.files.coverImage[0]): the write succeeds, or fails
UploadCover(c) ==
    LET r == reqs[c] IN
    /\ r.pc = "cover"
    /\ \E t \in Clock, ok \in BOOLEAN :
          LET key == StorageKey(server, t, r.t0, r.coverImage) IN
          /\ now' = t
          /\ IF ok
             THEN /\ blobs' = blobs \cup {key}
                  /\ reqs' = [reqs EXCEPT ![c] =
                        [r EXCEPT !.coverUrl = PublicUrl(server, key),
                                  !.pc = IF r.galleryImages # <<>> THEN "gallery"
                                         ELSE "store"]]
             ELSE /\ blobs' = blobs
                  /\ reqs' = [reqs EXCEPT ![c] = uploadError(r)]
    /\ UNCHANGED <<server, properties, nextId, nreq>>

\* for (const img of req.files.galleryImages) url = await uploadImage(img)
UploadGallery(c) ==
    LET r == reqs[c]
        img == r.galleryImages[Len(r.uploaded) + 1] IN
    /\ r.pc = "gallery"
    /\ \E t \in Clock, ok \in BOOLEAN :
          LET key == StorageKey(server, t, r.t0, img) IN
          /\ now' = t
          /\ IF ok
             THEN /\ blobs' = blobs \cup {key}
                  /\ reqs' = [reqs EXCEPT ![c] =
                        [r EXCEPT !.uploaded = Append(@, PublicUrl(server, key)),
                                  !.pc = IF Len(r.uploaded) + 1 = Len(r.galleryImages)
                                         THEN "store" ELSE "gallery"]]
             ELSE /\ blobs' = blobs
                  /\ reqs' = [reqs EXCEPT ![c] = uploadError(r)]
    /\ UNCHANGED <<server, properties, nextId, nreq>>

\* the object each rewrite's POST hands to .insert([...])
InsertPayload(srv, r) ==
    [cols |-> CASE srv = "part_000" -> insert000(r.body)
                [] srv = "part_001" -> payload001(r.body)
                [] srv = "server"   -> payloadServer(r.body),
     cover_image |-> IF r.coverImage # NoFile THEN r.coverUrl ELSE Null,
     hasGallery |-> TRUE,
     gallery_images |-> r.uploaded]

\* await supabase.from("properties").insert([...]).select().single()
Insert(c) ==
    LET r == reqs[c] IN
    /\ r.pc = "store" /\ r.method = "POST"
    /\ properties' = properties @@ (nextId :> InsertRow(InsertPayload(server, r)))
    /\ nextId' = nextId + 1
    /\ reqs' = [reqs EXCEPT ![c] = [r EXCEPT !.pc = "done", !.status = 200, !.id = nextId]]
    /\ UNCHANGED <<server, blobs, now, nreq>>

\* part_000 PUT: update, with cover_image and gallery_images set when there
\* is a new cover and when finalGallery.length is not 0
UpdatePayload000(r) ==
    LET finalGallery == finalGallery000(r.instr, r.uploaded) IN
    [cols |-> update000(r.body),
     cover_image |-> IF r.coverImage # NoFile THEN r.coverUrl ELSE Undefined,
     hasGallery |-> Len(finalGallery) # 0,
     gallery_images |-> finalGallery]

\* a payload whose gallery starts from the row as stored when the update is
\* handed over, not from the row the handler read
UpdatePayload001Fresh(r) ==
    [cols |-> payload001(r.body),
     cover_image |-> IF r.coverImage # NoFile THEN r.coverUrl
                     ELSE r.existing.cover_image,
     hasGallery |-> TRUE,
     gallery_images |-> galleryUrls001(properties[r.id], r.instr, r.uploaded)]

\* part_001 PUT: payload
UpdatePayload001(r) ==
    [cols |-> payload001(r.body),
     cover_image |-> IF r.coverImage # NoFile THEN r.coverUrl
                     ELSE r.existing.cover_image,
     hasGallery |-> TRUE,
     gallery_images |-> galleryUrls001(r.existing, r.instr, r.uploaded)]

\* server.js PUT: the object handed to .update({...})
UpdatePayloadServer(r) ==
    [cols |-> payloadServer(r.body),
     cover_image |-> IF r.coverImage # NoFile THEN r.coverUrl
                     ELSE OrNull(r.cover_image),
     hasGallery |-> TRUE,
     gallery_images |-> galleryUrlsServer(r.instr, r.uploaded)]

UpdatePayload(srv, r) ==
    CASE srv = "part_000" -> UpdatePayload000(r)
      [] srv = "part_001" -> UpdatePayload001(r)
      [] srv = "server"   -> UpdatePayloadServer(r)

\* the status a PUT answers when no row has the id: .single() reports an
\* error (part_000 answers 500 with it, part_001 throws it into its catch);
\* server.js takes data[0] of an empty list and answers 200
MissingRowStatus(srv) == IF srv = "server" THEN 200 ELSE 500

\* the updates the Record Store has applied for the requests on record
AppliedSoFar ==
    CHOOSE n \in {reqs[d].applied : d \in DOMAIN reqs} :
        \A d \in DOMAIN reqs : reqs[d].applied <= n

\* await supabase.from("properties").update(...).eq("id", id).select()
\* part_001 parses removeGallery just before: text that is no JSON throws
Update(c) ==
    LET r == reqs[c] IN
    /\ r.pc = "store" /\ r.method = "PUT"
    /\ IF server = "part_001" /\ r.instr.kind = "garbled"
       THEN /\ reqs' = [reqs EXCEPT ![c] = Fail(r, 500)]
            /\ properties' = properties
       ELSE IF r.id \in DOMAIN properties
       THEN /\ properties' = [properties EXCEPT ![r.id] =
                                 UpdateRow(@, UpdatePayload(server, r))]
            /\ reqs' = [reqs EXCEPT ![c] = [r EXCEPT !.pc = "done", !.status = 200,
                                                      !.applied = AppliedSoFar + 1,
                                                      !.replaced = properties[r.id]]]
       ELSE /\ properties' = properties
            /\ reqs' = [reqs EXCEPT ![c] = Fail(r, MissingRowStatus(server))]
    /\ UNCHANGED <<server, nextId, blobs, now, nreq>>

\* await supabase.from("properties").delete().eq("id", id); the blobs stay
Delete(c) ==
    LET r == reqs[c] IN
    /\ r.pc = "store" /\ r.method = "DELETE"
    /\ properties' = [i \in DOMAIN properties \ {r.id} |-> properties[i]]
    /\ reqs' = [reqs EXCEPT ![c] = [r EXCEPT !.pc = "done", !.status = 200]]
    /\ UNCHANGED <<server, nextId, blobs, now, nreq>>

\* ---------------------------------------------------------- specification
Init ==
    /\ server \in Servers
    /\ properties = [i \in {} |-> EmptyRow]
    /\ nextId = 1
    /\ blobs = {}
    /\ now = 1
    /\ reqs = [c \in Clients |-> IdleReq]
    /\ nreq = 0

Next ==
    \E c \in Clients :
        \/ BeginPost(c)
        \/ BeginPut(c)
        \/ BeginDelete(c)
        \/ ReadExisting(c)
        \/ UploadCover(c)
        \/ UploadGallery(c)
        \/ Insert(c)
        \/ Update(c)
        \/ Delete(c)

Spec == Init /\ [][Next]_vars

\* ------------------------------------------- two requests handled at once
\* Node runs the handlers of two requests interleaved at their awaits.  The
\* behaviours start from a row that a POST of the deployed rewrite stored:
\* the full body and one gallery file, a.jpg, uploaded at time 1.
ConcClients == {1, 2}

ConcServers == {"part_000", "part_001"}

NameOnlyBody == ("name" :> "Hilltop House")

StoredUrl == Url("property-images", 1, "a.jpg")

StoredRow(srv) ==
    InsertRow(InsertPayload(srv, [IdleReq EXCEPT !.method = "POST", !.body = FullBody,
                                                 !.galleryImages = <<"a.jpg">>,
                                                 !.uploaded = <<StoredUrl>>]))

\* the instructions drawn: none, the empty array, the stored URL
ConcInstructions ==
    {NoInstr, [kind |-> "array", urls |-> <<>>], [kind |-> "array", urls |-> <<StoredUrl>>]}

\* PUT /api/properties/1 arrives, with a token that verifies; each of the two
\* clients sends one update
BeginPutConc(c) ==
    /\ reqs[c].pc = "idle"
    /\ \E body \in {PartialBody, NameOnlyBody}, cover \in {NoFile, "a.jpg"},
          files \in SeqsUpTo(FileNames, 1), instr \in ConcInstructions :
          Arrive(c, [IdleReq EXCEPT !.method = "PUT", !.id = 1,
                                    !.auth = <<Str("Bearer"), Token(JWT_SECRET, "fresh")>>,
                                    !.body = body, !.coverImage = cover,
                                    !.galleryImages = files, !.instr = instr])

InitConc ==
    /\ server \in ConcServers
    /\ properties = (1 :> StoredRow(server))
    /\ nextId = 2
    /\ blobs = {StorageKey(server, 1, 1, "a.jpg")}
    /\ now = 1
    /\ reqs = [c \in ConcClients |-> IdleReq]
    /\ nreq = 0

NextConc ==
    \E c \in ConcClients :
        \/ BeginPutConc(c)
        \/ ReadExisting(c)
        \/ UploadCover(c)
        \/ UploadGallery(c)
        \/ Update(c)

SpecConc == InitConc /\ [][NextConc]_vars

\* ============================================================ properties
\* the rewrites that ingest through uploadImage: src/unnamed/part_000 and
\* src/unnamed/part_001
UploadImageRewrites == {"part_000", "part_001"}

\* The row a finished PUT addressed, as the request found it and as it is now.
PutOnExisting(r) ==
    /\ r.pc = "done" /\ r.method = "PUT"
    /\ r.id \in DOMAIN r.before /\ r.id \in DOMAIN properties

Baseline(r) == r.before[r.id].gallery_images
Stored(r)   == properties[r.id].gallery_images

\* C1: after a PUT on an existing property, every scalar field the body does
\* not supply has the value it had before the update.
C1_OmittedFieldsKept ==
    \A c \in Clients :
        LET r == reqs[c] IN
        (server \in UploadImageRewrites /\ PutOnExisting(r)) =>
            \A f \in ScalarFields \ DOMAIN r.body :
                properties[r.id].cols[f] = r.before[r.id].cols[f]

\* C2: a PUT with N >= 1 gallery files and no instruction stores the baseline
\* gallery followed by the N new URLs in upload order.
C2_BaselinePlusNew ==
    \A c \in Clients :
        LET r == reqs[c] IN
        (/\ server \in UploadImageRewrites /\ PutOnExisting(r) /\ r.status = 200
         /\ Len(r.galleryImages) >= 1 /\ r.instr.kind = "absent")
        => Stored(r) = Baseline(r) \o JsonArray(r.uploaded)

\* C3: a PUT with a parseable galleryOrder that omits a stored URL stores none
\* of the omitted URLs, and stores the instruction's URLs in its order followed
\* by the URLs uploaded in the request.
C3_OrderingInstruction ==
    \A c \in Clients :
        LET r == reqs[c] IN
        (/\ server = "part_000" /\ PutOnExisting(r) /\ r.status = 200
         /\ r.instr.kind = "array"
         /\ \E i \in 1..Len(Baseline(r)) : ~Includes(r.instr.urls, Baseline(r)[i]))
        => /\ \A i \in 1..Len(Baseline(r)) :
                 ~Includes(r.instr.urls, Baseline(r)[i])
                 => ~Includes(Stored(r), Baseline(r)[i])
           /\ Stored(r) = r.instr.urls \o r.uploaded

\* the request removes every stored gallery image: an empty ordering, or a
\* removal list naming every baseline URL
RemovesAll(r) ==
    /\ r.instr.kind = "array"
    /\ IF server = "part_001"
       THEN \A i \in 1..Len(Baseline(r)) : Includes(r.instr.urls, Baseline(r)[i])
       ELSE r.instr.urls = <<>>

\* C4: a PUT that removes every stored gallery image and uploads none stores
\* the empty gallery.
C4_EmptyGalleryWritten ==
    \A c \in Clients :
        LET r == reqs[c] IN
        (/\ server \in UploadImageRewrites /\ PutOnExisting(r) /\ r.status = 200
         /\ Baseline(r) # <<>> /\ r.galleryImages = <<>> /\ RemovesAll(r))
        => Stored(r) = <<>>

\* C5: a POST or PUT one of whose Object Store writes returned an error ends
\* with an error response and the Record Store as the request found it.
C5_StorageErrorAborts ==
    \A c \in Clients :
        LET r == reqs[c] IN
        (r.method \in {"POST", "PUT"} /\ r.storageError)
        => /\ r.pc = "done"
           /\ r.status = 500
           /\ properties = r.before

\* C5 witness: an authorized PUT on a stored row whose second upload failed
\* after the first had been written.
C5_Witness ==
    \E c \in Clients :
        LET r == reqs[c] IN
        /\ server = "part_000" /\ r.pc = "done" /\ r.method = "PUT"
        /\ r.id \in DOMAIN r.before
        /\ r.storageError /\ Len(r.uploaded) >= 1
        /\ blobs # r.blobsBefore

\* the header's second word is a token that verifies against the secret
TokenVerifies(auth) == Len(auth) >= 2 /\ jwtVerify(auth[2], JWT_SECRET)

\* C6: in part_000 a request without a verifying token is answered 401 and
\* leaves the rows and the blobs as it found them.
C6_GateProtectsStores ==
    server = "part_000" =>
        \A c \in Clients :
            LET r == reqs[c] IN
            (r.pc # "idle" /\ ~TokenVerifies(r.auth))
            => /\ r.pc = "done"
               /\ r.status = 401
               /\ properties = r.before
               /\ blobs = r.blobsBefore

\* C6 witness: a PUT with files and a token signed with another key, turned
\* away while a row is stored.
C6_Witness ==
    \E c \in Clients :
        LET r == reqs[c] IN
        /\ server = "part_000" /\ r.pc = "done" /\ r.method = "PUT"
        /\ r.auth = <<Str("Bearer"), Token("guessed", "fresh")>>
        /\ r.galleryImages # <<>>
        /\ r.id \in DOMAIN properties
        /\ r.status = 401

\* C7: a PUT whose instruction is no JSON does not fail and stores the
\* baseline gallery followed by the URLs uploaded in the request.
C7_GarbledInstructionIgnored ==
    \A c \in Clients :
        LET r == reqs[c] IN
        (/\ PutOnExisting(r) /\ r.instr.kind = "garbled" /\ ~r.storageError)
        => /\ r.status = 200
           /\ Stored(r) = Baseline(r) \o JsonArray(r.uploaded)

NoDuplicates(list) ==
    \A i, j \in 1..Len(list) : i # j => list[i] # list[j]

\* C8: no stored gallery holds a URL twice.
C8_NoDuplicateUrls ==
    server = "part_000" =>
        \A id \in DOMAIN properties : NoDuplicates(properties[id].gallery_images)

\* C9: a PUT whose id names no row is answered 404 and creates no row.
C9_MissingIdNotFound ==
    \A c \in Clients :
        LET r == reqs[c] IN
        (/\ server \in UploadImageRewrites
         /\ r.pc = "done" /\ r.method = "PUT" /\ Gate(server, r.auth) = 0
         /\ ~r.storageError /\ r.id \notin DOMAIN r.before)
        => /\ r.status = 404
           /\ properties = r.before

\* C10: a PUT with a removal list stores the baseline without the URLs the
\* list names, followed by every URL uploaded in the request.
C10_RemovalKeepsNewUrls ==
    \A c \in Clients :
        LET r == reqs[c] IN
        (/\ server = "part_001" /\ PutOnExisting(r) /\ r.status = 200
         /\ r.instr.kind = "array")
        => Stored(r) = FilterOut(Baseline(r), r.instr.urls) \o r.uploaded


\* ---- two updates of one property handled at once (SpecConc)
\* both requests are PUTs the Record Store applied, one after the other
BothApplied ==
    /\ DOMAIN reqs = ConcClients
    /\ \A c \in ConcClients : reqs[c].pc = "done" /\ reqs[c].method = "PUT"
    /\ \A c, d \in ConcClients : reqs[c].applied > 0 /\ reqs[c].id = reqs[d].id
    /\ \E c, d \in ConcClients : reqs[c].applied < reqs[d].applied

LaterWriter ==
    reqs[CHOOSE c \in ConcClients : \A d \in ConcClients : reqs[d].applied <= reqs[c].applied]

EarlierWriter ==
    reqs[CHOOSE c \in ConcClients : \A d \in ConcClients : reqs[c].applied <= reqs[d].applied]

\* the row as the request saw it: the baseline it read, or, where the handler
\* reads none, the row stored when the request arrived
Seen(r) == IF server = "part_001" THEN r.existing ELSE r.before[r.id]

\* the scalar columns of the object the handler hands to update()
SentCols(r) == IF server = "part_001" THEN payload001(r.body) ELSE update000(r.body)

\* C11 (as stated): when two updates of one property are handled at once, the
\* record stored after both is exactly what the request applied last wrote:
\* its payload over the row it saw, with nothing of the earlier payload that
\* the later request had not seen.
C11_LastPayloadOnly ==
    BothApplied =>
        properties[LaterWriter.id]
            = UpdateRow(Seen(LaterWriter), UpdatePayload(server, LaterWriter))

\* C11 (amended): when two updates of one property are handled at once, the
\* last write wins column by column: every column the payload applied last
\* carries holds that payload's value, and a column it does not carry keeps
\* what the earlier update left there.  Where the handler reads a baseline
\* (part_001) the gallery and the cover are always carried and are computed
\* from that baseline, so a gallery URL uploaded by the earlier request is in
\* the final record only if the later request read it in its baseline or
\* uploaded it itself.  Where the handler reads none (part_000) the gallery is
\* the later request's merged list, or, when that list is empty, the one the
\* earlier update left.
C11_LastWriteWinsPerColumn ==
    BothApplied =>
        LET L == LaterWriter
            E == EarlierWriter
            row == properties[L.id]
            first == E.replaced
        IN  /\ \A c \in Columns :
                  row.cols[c] = IF SentCols(L)[c] # Undefined THEN Json(SentCols(L)[c])
                                ELSE IF SentCols(E)[c] # Undefined THEN Json(SentCols(E)[c])
                                ELSE first.cols[c]
            /\ server = "part_001" =>
                  /\ row.gallery_images
                        = JsonArray(galleryUrls001(L.existing, L.instr, L.uploaded))
                  /\ row.cover_image = IF L.coverImage # NoFile THEN L.coverUrl
                                       ELSE L.existing.cover_image
                  /\ \A i \in 1..Len(E.uploaded) :
                        Includes(row.gallery_images, E.uploaded[i])
                            => \/ Includes(L.existing.gallery_images, E.uploaded[i])
                               \/ Includes(L.uploaded, E.uploaded[i])
            /\ server = "part_000" =>
                  /\ row.gallery_images
                        = IF Len(finalGallery000(L.instr, L.uploaded)) # 0
                          THEN JsonArray(finalGallery000(L.instr, L.uploaded))
                          ELSE IF Len(finalGallery000(E.instr, E.uploaded)) # 0
                          THEN JsonArray(finalGallery000(E.instr, E.uploaded))
                          ELSE first.gallery_images
                  /\ row.cover_image = IF L.coverImage # NoFile THEN L.coverUrl
                                       ELSE IF E.coverImage # NoFile THEN E.coverUrl
                                       ELSE first.cover_image

\* a lost update next to a kept column: the earlier request uploaded a gallery
\* file and set the price; the later request, which had read its baseline
\* before that write and sends no price, leaves the price and drops the file
C11_Witness ==
    /\ BothApplied
    /\ server = "part_001"
    /\ LET L == LaterWriter
           E == EarlierWriter
           row == properties[L.id]
       IN  /\ Len(E.uploaded) > 0
           /\ ~Includes(L.existing.gallery_images, E.uploaded[Len(E.uploaded)])
           /\ ~Includes(L.uploaded, E.uploaded[Len(E.uploaded)])
           /\ ~Includes(row.gallery_images, E.uploaded[Len(E.uploaded)])
           /\ SentCols(L)["price"] = Undefined
           /\ SentCols(E)["price"] # Undefined
           /\ row.cols["price"] = Json(SentCols(E)["price"])
           /\ row.cols["price"] # L.existing.cols["price"]

====
